---- MODULE Spec2Model ----
(***************************************************************************)
(* Model of scripts/generate_patch_for_all_of_substrate.py.                *)
(*                                                                         *)
(* The script is a straight-line program: it loads ../substrate/Cargo.toml,*)
(* reads workspace.members, prints a [patch] header and then, for every    *)
(* member whose Cargo.toml exists, prints one override line.  The model    *)
(* has one action per source line (L17 .. L26), so that the text written   *)
(* to standard output can be observed at every point of a run, including   *)
(* the point at which an exception ends it.                                *)
(*                                                                         *)
(* Strings are sequences of one-character strings, so that os.path.join    *)
(* and the f-string of line 26 are computed as the code computes them.     *)
(* Standard output is the sequence of lines written by print(); package    *)
(* names are taken from a set of names without line breaks.                *)
(***************************************************************************)
EXTENDS Integers, Sequences, FiniteSets, TLC

\* Longest workspace.members list explored.
MaxMembers == 3

(***************************************************************************)
(* String literals of the script.                                          *)
(***************************************************************************)
Root == <<".", ".", "/", "s", "u", "b", "s", "t", "r", "a", "t", "e">>

CargoToml == <<"C", "a", "r", "g", "o", ".", "t", "o", "m", "l">>

\* The header with the URL of the upstream repository instead of the fork.
Header_upstream == <<"[", "p", "a", "t", "c", "h", ".", "\"", "h", "t", "t", "p", "s", ":", "/", "/", "g", "i", "t", "h", "u", "b", ".", "c", "o", "m", "/", "p", "a", "r", "i", "t", "y", "t", "e", "c", "h", "/", "s", "u", "b", "s", "t", "r", "a", "t", "e", ".", "g", "i", "t", "\"", "]">>

Header == <<"[", "p", "a", "t", "c", "h", ".", "\"", "h", "t", "t", "p", "s", ":", "/", "/", "g", "i", "t", "h", "u", "b", ".", "c", "o", "m", "/", "c", "o", "m", "p", "o", "u", "n", "d", "-", "f", "i", "n", "a", "n", "c", "e", "/", "s", "u", "b", "s", "t", "r", "a", "t", "e", ".", "g", "i", "t", "\"", "]">>

Sep == "/"

(***************************************************************************)
(* Inputs: the member paths a workspace may list and the package names a   *)
(* member manifest may declare.                                            *)
(***************************************************************************)
PathA == <<"a">>

PathDotDotB == <<".", ".", "/", "b">>

PathAbsC == <<"/", "c">>

MemberPaths == {PathA, PathDotDotB, PathAbsC}

NameFoo == <<"f", "o", "o">>

NameBar == <<"b", "a", "r">>

PackageNames == {NameFoo, NameBar}

\* The manifest files the member paths above lead to.
FileA == <<".", ".", "/", "s", "u", "b", "s", "t", "r", "a", "t", "e", "/", "a", "/", "C", "a", "r", "g", "o", ".", "t", "o", "m", "l">>

FileB == <<".", ".", "/", "s", "u", "b", "s", "t", "r", "a", "t", "e", "/", ".", ".", "/", "b", "/", "C", "a", "r", "g", "o", ".", "t", "o", "m", "l">>

FileC == <<"/", "c", "/", "C", "a", "r", "g", "o", ".", "t", "o", "m", "l">>

MemberFiles == {FileA, FileB, FileC}

\* What a Cargo.toml on disk can be: not there, not TOML, TOML without
\* package.name, or TOML with package.name.
NoName == <<>>

MemberContents ==
    {[kind |-> "absent", name |-> NoName],
     [kind |-> "malformed", name |-> NoName],
     [kind |-> "no_name", name |-> NoName]}
    \cup {[kind |-> "ok", name |-> n] : n \in PackageNames}

BoundedSeqs(S, n) == UNION {[1..k -> S] : k \in 0..n}

\* What ../substrate/Cargo.toml can be: not there, not TOML, TOML without
\* workspace.members, or TOML with a members list.
RootContents ==
    {[kind |-> "absent", members |-> <<>>],
     [kind |-> "malformed", members |-> <<>>],
     [kind |-> "no_members", members |-> <<>>]}
    \cup {[kind |-> "ok", members |-> m] : m \in BoundedSeqs(MemberPaths, MaxMembers)}

Unset == [kind |-> "unset", members |-> <<>>]

UnsetDoc == [kind |-> "unset", name |-> NoName]

VARIABLES
    fsRoot,               \* content of ../substrate/Cargo.toml
    fsMembers,            \* content of every member manifest file
    pc,                   \* the source line about to run, or "done"
    exc,                  \* "none", or the exception that ended the run
    workspace,            \* line 17
    paths,                \* line 18
    i,                    \* number of items the for loop has taken from paths
    path,                 \* line 20
    candidate_path,       \* line 21
    candidate_cargo_file, \* line 22
    parsed,               \* line 24
    package_name,         \* line 25
    stdout,               \* lines written by print()
    inspected             \* files handed to os.path.exists, in order

vars == <<fsRoot, fsMembers, pc, exc, workspace, paths, i, path,
          candidate_path, candidate_cargo_file, parsed, package_name,
          stdout, inspected>>

fsVars == <<fsRoot, fsMembers>>

(***************************************************************************)
(* Library functions, as the script uses them.                             *)
(***************************************************************************)
StartsWithSep(s) == Len(s) > 0 /\ s[1] = Sep

EndsWithSep(s) == Len(s) > 0 /\ s[Len(s)] = Sep

\* A join that always appends b to a, whatever b starts with.
os_path_join_concat(a, b) ==
    IF Len(a) = 0 \/ EndsWithSep(a) THEN a \o b
    ELSE a \o <<Sep>> \o b

\* posixpath.join(a, b)
os_path_join(a, b) ==
    IF StartsWithSep(b) THEN b
    ELSE IF Len(a) = 0 \/ EndsWithSep(a) THEN a \o b
    ELSE a \o <<Sep>> \o b

\* The file a path string names: repeated separators name the same file.
RECURSIVE Collapse(_)
Collapse(s) ==
    IF Len(s) < 2 THEN s
    ELSE IF s[1] = Sep /\ s[2] = Sep THEN Collapse(Tail(s))
    ELSE <<s[1]>> \o Collapse(Tail(s))

ContentAt(fs, file) ==
    IF Collapse(file) \in DOMAIN fs THEN fs[Collapse(file)]
    ELSE [kind |-> "absent", name |-> NoName]

os_path_exists(fs, file) == ContentAt(fs, file).kind # "absent"

\* An entry whose path is not quoted.
FormatEntry_unquoted(name, dir) ==
    name \o <<" ", "=", " ", "{", " ", "p", "a", "t", "h", " ", "=", " ">>
         \o dir \o <<" ", "}">>

\* f'{package_name} = {{ path = "{candidate_path}" }}'
FormatEntry(name, dir) ==
    name \o <<" ", "=", " ", "{", " ", "p", "a", "t", "h", " ", "=", " ", "\"">>
         \o dir \o <<"\"", " ", "}">>

\* A print that puts the newest line first.
StdoutWrite_prepend(out, line) == <<line>> \o out

\* A print that drops a line that was written before.
StdoutWrite_dedup(out, line) ==
    IF \E q \in 1..Len(out) : out[q] = line THEN out ELSE Append(out, line)

\* print(line)
StdoutWrite(out, line) == Append(out, line)

(***************************************************************************)
(* The program.                                                            *)
(***************************************************************************)
Init ==
    /\ fsRoot \in RootContents
    /\ fsMembers \in [MemberFiles -> MemberContents]
    /\ pc = "L17"
    /\ exc = "none"
    /\ workspace = Unset
    /\ paths = <<>>
    /\ i = 0
    /\ path = <<>>
    /\ candidate_path = <<>>
    /\ candidate_cargo_file = <<>>
    /\ parsed = UnsetDoc
    /\ package_name = NoName
    /\ stdout = <<>>
    /\ inspected = <<>>

Running(line) == pc = line /\ exc = "none"

\* workspace = toml.load('../substrate/Cargo.toml')
L17 ==
    /\ Running("L17")
    /\ IF fsRoot.kind = "absent"
         THEN exc' = "FileNotFoundError" /\ UNCHANGED <<pc, workspace>>
       ELSE IF fsRoot.kind = "malformed"
         THEN exc' = "TomlDecodeError" /\ UNCHANGED <<pc, workspace>>
       ELSE workspace' = fsRoot /\ pc' = "L18" /\ exc' = exc
    /\ UNCHANGED <<fsVars, paths, i, path, candidate_path,
                   candidate_cargo_file, parsed, package_name, stdout,
                   inspected>>

\* Line 18 with a default: a manifest without workspace.members has no members.
L18_default ==
    /\ Running("L18")
    /\ paths' = (IF workspace.kind = "ok" THEN workspace.members ELSE <<>>)
    /\ pc' = "L19"
    /\ UNCHANGED <<fsVars, exc, workspace, i, path, candidate_path,
                   candidate_cargo_file, parsed, package_name, stdout,
                   inspected>>

\* paths = workspace['workspace']['members']
L18 ==
    /\ Running("L18")
    /\ IF workspace.kind = "ok"
         THEN paths' = workspace.members /\ pc' = "L19" /\ exc' = exc
       ELSE exc' = "KeyError" /\ UNCHANGED <<pc, paths>>
    /\ UNCHANGED <<fsVars, workspace, i, path, candidate_path,
                   candidate_cargo_file, parsed, package_name, stdout,
                   inspected>>

\* print('[patch."https://github.com/compound-finance/substrate.git"]')
L19 ==
    /\ Running("L19")
    /\ stdout' = StdoutWrite(stdout, Header)
    /\ pc' = "L20"
    /\ UNCHANGED <<fsVars, exc, workspace, paths, i, path, candidate_path,
                   candidate_cargo_file, parsed, package_name, inspected>>

\* for path in paths:
L20 ==
    /\ Running("L20")
    /\ IF i < Len(paths)
         THEN i' = i + 1 /\ path' = paths[i + 1] /\ pc' = "L21"
       ELSE pc' = "done" /\ UNCHANGED <<i, path>>
    /\ UNCHANGED <<fsVars, exc, workspace, paths, candidate_path,
                   candidate_cargo_file, parsed, package_name, stdout,
                   inspected>>

\* candidate_path = os.path.join('../substrate', path)
L21 ==
    /\ Running("L21")
    /\ candidate_path' = os_path_join(Root, path)
    /\ pc' = "L22"
    /\ UNCHANGED <<fsVars, exc, workspace, paths, i, path,
                   candidate_cargo_file, parsed, package_name, stdout,
                   inspected>>

\* candidate_cargo_file = os.path.join(candidate_path, 'Cargo.toml')
L22 ==
    /\ Running("L22")
    /\ candidate_cargo_file' = os_path_join(candidate_path, CargoToml)
    /\ pc' = "L23"
    /\ UNCHANGED <<fsVars, exc, workspace, paths, i, path, candidate_path,
                   parsed, package_name, stdout, inspected>>

\* Line 23 with the test inverted.
L23_inverted ==
    /\ Running("L23")
    /\ inspected' = Append(inspected, candidate_cargo_file)
    /\ pc' = IF os_path_exists(fsMembers, candidate_cargo_file)
               THEN "L20" ELSE "L24"
    /\ UNCHANGED <<fsVars, exc, workspace, paths, i, path, candidate_path,
                   candidate_cargo_file, parsed, package_name, stdout>>

\* Line 23 without the test: every member manifest is loaded.
L23_unchecked ==
    /\ Running("L23")
    /\ inspected' = Append(inspected, candidate_cargo_file)
    /\ pc' = "L24"
    /\ UNCHANGED <<fsVars, exc, workspace, paths, i, path, candidate_path,
                   candidate_cargo_file, parsed, package_name, stdout>>

\* if os.path.exists(candidate_cargo_file):
L23 ==
    /\ Running("L23")
    /\ inspected' = Append(inspected, candidate_cargo_file)
    /\ pc' = IF os_path_exists(fsMembers, candidate_cargo_file)
               THEN "L24" ELSE "L20"
    /\ UNCHANGED <<fsVars, exc, workspace, paths, i, path, candidate_path,
                   candidate_cargo_file, parsed, package_name, stdout>>

\* parsed = toml.load(candidate_cargo_file)
L24 ==
    /\ Running("L24")
    /\ IF ContentAt(fsMembers, candidate_cargo_file).kind = "absent"
         THEN exc' = "FileNotFoundError" /\ UNCHANGED <<pc, parsed>>
       ELSE IF ContentAt(fsMembers, candidate_cargo_file).kind = "malformed"
         THEN exc' = "TomlDecodeError" /\ UNCHANGED <<pc, parsed>>
       ELSE /\ parsed' = ContentAt(fsMembers, candidate_cargo_file)
            /\ pc' = "L25"
            /\ exc' = exc
    /\ UNCHANGED <<fsVars, workspace, paths, i, path, candidate_path,
                   candidate_cargo_file, package_name, stdout, inspected>>

\* Line 25 tolerating a manifest without package.name: the member is skipped.
L25_skip ==
    /\ Running("L25")
    /\ IF parsed.kind = "ok"
         THEN package_name' = parsed.name /\ pc' = "L26"
       ELSE pc' = "L20" /\ UNCHANGED package_name
    /\ UNCHANGED <<fsVars, exc, workspace, paths, i, path, candidate_path,
                   candidate_cargo_file, parsed, stdout, inspected>>

\* package_name = parsed['package']['name']
L25 ==
    /\ Running("L25")
    /\ IF parsed.kind = "ok"
         THEN package_name' = parsed.name /\ pc' = "L26" /\ exc' = exc
       ELSE exc' = "KeyError" /\ UNCHANGED <<pc, package_name>>
    /\ UNCHANGED <<fsVars, workspace, paths, i, path, candidate_path,
                   candidate_cargo_file, parsed, stdout, inspected>>

\* print(f'{package_name} = {{ path = "{candidate_path}" }}')
L26 ==
    /\ Running("L26")
    /\ stdout' = StdoutWrite(stdout, FormatEntry(package_name, candidate_path))
    /\ pc' = "L20"
    /\ UNCHANGED <<fsVars, exc, workspace, paths, i, path, candidate_path,
                   candidate_cargo_file, parsed, package_name, inspected>>

Next ==
    \/ L17
    \/ L18
    \/ L19
    \/ L20
    \/ L21
    \/ L22
    \/ L23
    \/ L24
    \/ L25
    \/ L26

Spec == Init /\ [][Next]_vars

TypeOK ==
    /\ pc \in {"L17", "L18", "L19", "L20", "L21", "L22", "L23", "L24",
               "L25", "L26", "done"}
    /\ exc \in {"none", "FileNotFoundError", "TomlDecodeError", "KeyError"}
    /\ i \in 0..Len(paths)

(***************************************************************************)
(* Vocabulary of the properties.  These definitions are written from the   *)
(* inputs (fsRoot, fsMembers) alone and never use the operators of the     *)
(* program above.                                                          *)
(***************************************************************************)
ExpectedHeader == <<"[", "p", "a", "t", "c", "h", ".", "\"", "h", "t", "t", "p", "s", ":", "/", "/", "g", "i", "t", "h", "u", "b", ".", "c", "o", "m", "/", "c", "o", "m", "p", "o", "u", "n", "d", "-", "f", "i", "n", "a", "n", "c", "e", "/", "s", "u", "b", "s", "t", "r", "a", "t", "e", ".", "g", "i", "t", "\"", "]">>

ExpectedLine(name, dir) ==
    name \o <<" ", "=", " ", "{", " ", "p", "a", "t", "h", " ", "=", " ", "\"">>
         \o dir \o <<"\"", " ", "}">>

RootOk == fsRoot.kind = "ok"

Members == fsRoot.members

NMembers == Len(Members)

\* The directory of member path p: under the root for a relative p, p
\* itself for a p that starts with "/".
DirOf(p) == IF Len(p) > 0 /\ p[1] = "/" THEN p ELSE Root \o <<"/">> \o p

ManifestNameOf(p) ==
    IF Len(DirOf(p)) > 0 /\ DirOf(p)[Len(DirOf(p))] = "/"
      THEN DirOf(p) \o CargoToml
      ELSE DirOf(p) \o <<"/">> \o CargoToml

\* The directory and manifest of member path p when p is appended to the
\* root whatever it looks like.
LiteralDirOf(p) == Root \o <<"/">> \o p

LiteralManifestOf(p) == Root \o <<"/">> \o p \o <<"/">> \o CargoToml

KindOf(k) == ContentAt(fsMembers, ManifestNameOf(Members[k])).kind

NameOf(k) == ContentAt(fsMembers, ManifestNameOf(Members[k])).name

Absent(k) == KindOf(k) = "absent"

Valid(k) == KindOf(k) = "ok"

Bad(k) == KindOf(k) \in {"malformed", "no_name"}

LineOfMember(k) == ExpectedLine(NameOf(k), DirOf(Members[k]))

LoopBody == {"L21", "L22", "L23", "L24", "L25", "L26"}

\* Number of members the loop has finished with.
Processed == IF pc \in LoopBody THEN i - 1 ELSE i

\* Number of valid members among the first k.
Rank(k) == Cardinality({j \in 1..k : Valid(j)})

RECURSIVE ExpectedEntries(_)
ExpectedEntries(k) ==
    IF k = 0 THEN <<>>
    ELSE ExpectedEntries(k - 1) \o (IF Valid(k) THEN <<LineOfMember(k)>> ELSE <<>>)

Failed == exc # "none"

FailedAtMember == Failed /\ pc \in {"L24", "L25"}

\* The run has stopped: it completed or an exception ended it.
Stopped == ~ENABLED Next

(***************************************************************************)
(* C1: when a member manifest exists but is malformed or lacks             *)
(* package.name, the run fails having written nothing to standard output.  *)
(***************************************************************************)
C1_NoOutputOnMemberFailure == FailedAtMember => stdout = <<>>

(***************************************************************************)
(* C2: on a completed run the number of entry lines after the header       *)
(* equals the number of members whose Cargo.toml exists, every one of      *)
(* which is well-formed, and is at most the number of members.             *)
(***************************************************************************)
C2_EntryCount ==
    pc = "done" =>
        /\ Len(stdout) - 1 = Cardinality({k \in 1..NMembers : ~Absent(k)})
        /\ Len(stdout) - 1 = Cardinality({k \in 1..NMembers : Valid(k)})
        /\ Len(stdout) - 1 <= NMembers

C2_Witness ==
    /\ pc = "done"
    /\ NMembers >= 2
    /\ \E k \in 1..NMembers : Absent(k)
    /\ \E k \in 1..NMembers : Valid(k)
    /\ Len(stdout) = 1 + Rank(NMembers)

(***************************************************************************)
(* C3: output is written in declared order.  Every step that changes       *)
(* standard output appends one line at its end; the first line written is  *)
(* the header, written before the loop takes any member; every other line  *)
(* is the entry of the member the loop is at; and the loop only moves from *)
(* member i to member i + 1.                                               *)
(***************************************************************************)
C3_DeclaredOrder ==
    [][/\ i' \in {i, i + 1}
       /\ i' = i + 1 => path' = Members[i + 1]
       /\ stdout' # stdout =>
            /\ Len(stdout') = Len(stdout) + 1
            /\ SubSeq(stdout', 1, Len(stdout)) = stdout
            /\ IF stdout = <<>>
                 THEN i = 0 /\ stdout'[1] = ExpectedHeader
                 ELSE /\ stdout[1] = ExpectedHeader
                      /\ i' = i
                      /\ stdout'[Len(stdout')] = LineOfMember(i)]_vars

C3_Witness ==
    /\ pc = "done"
    /\ Len(stdout) >= 3
    /\ stdout[2] # stdout[3]
    /\ \E j, k \in 1..NMembers :
          j < k /\ stdout[2] = LineOfMember(j) /\ stdout[3] = LineOfMember(k)

(***************************************************************************)
(* C4: a member whose Cargo.toml does not exist is skipped without an      *)
(* entry and without an error: an exception is never raised at an absent   *)
(* member, the entries of later valid members are still written, and a run *)
(* whose members are all absent or valid ends successfully.                *)
(***************************************************************************)
C4_AbsentSkipped ==
    /\ (Failed /\ pc \in LoopBody) => ~Absent(i)
    /\ \A k \in 1..Processed : Absent(k) =>
          /\ Len(stdout) - 1 <= Processed - 1
          /\ \A j \in (k + 1)..Processed : Valid(j) =>
                /\ 1 + Rank(j) <= Len(stdout)
                /\ stdout[1 + Rank(j)] = LineOfMember(j)
    /\ (RootOk /\ \A k \in 1..NMembers : ~Bad(k)) =>
          /\ ~Failed
          /\ Stopped => (pc = "done" /\ Len(stdout) = 1 + Rank(NMembers))

C4_Witness ==
    /\ pc = "done"
    /\ ~Failed
    /\ \E k, j \in 1..NMembers : k < j /\ Absent(k) /\ Valid(j)

(***************************************************************************)
(* C5: a member manifest that exists but is malformed or lacks             *)
(* package.name is fatal.  With k the first such member, the run never     *)
(* gets past member k, never completes, writes no entry for member k or a  *)
(* later one, inspects no later manifest, and stops with an exception at   *)
(* member k; every member the run did get past is absent or valid.         *)
(***************************************************************************)
C5_InvalidIsFatal ==
    /\ \A k \in 1..NMembers :
          (RootOk /\ Bad(k) /\ \A j \in 1..(k - 1) : ~Bad(j)) =>
             /\ i <= k
             /\ pc # "done"
             /\ Len(inspected) <= k
             /\ Len(stdout) <= 1 + Rank(k - 1)
             /\ Stopped => (FailedAtMember /\ i = k
                            /\ Len(stdout) = 1 + Rank(k - 1))
    /\ \A k \in 1..Processed : Absent(k) \/ Valid(k)

C5_Witness ==
    /\ FailedAtMember
    /\ i >= 2
    /\ i < NMembers
    /\ Bad(i)
    /\ Absent(i - 1)
    /\ Len(inspected) = i

(***************************************************************************)
(* C6: if the root manifest is missing, unreadable or lacks                *)
(* workspace.members, the run fails before the header is written: standard *)
(* output stays empty and no member manifest is inspected.                 *)
(***************************************************************************)
C6_RootFailure ==
    ~RootOk =>
        /\ stdout = <<>>
        /\ inspected = <<>>
        /\ pc \in {"L17", "L18"}
        /\ Stopped => Failed

C6_Witness == exc = "KeyError" /\ pc = "L18" /\ fsRoot.kind = "no_members"

(***************************************************************************)
(* C7: with an empty members list, or with every member's manifest absent, *)
(* the run succeeds and the output is exactly the header line.             *)
(***************************************************************************)
C7_HeaderOnly ==
    (RootOk /\ \A k \in 1..NMembers : Absent(k)) =>
        /\ ~Failed
        /\ Stopped => (pc = "done" /\ stdout = <<ExpectedHeader>>)

C7_Witness ==
    /\ pc = "done"
    /\ Members = <<>>
    /\ stdout = <<ExpectedHeader>>

(***************************************************************************)
(* C8: no deduplication and no sorting.  On a completed run every valid    *)
(* member has its own line at its own position, also when another member   *)
(* (or the same path listed again) declares the same package name, so a    *)
(* name occurs in the output as often as valid members declare it.         *)
(***************************************************************************)
HasName(line, n) == Len(line) >= Len(n) /\ SubSeq(line, 1, Len(n)) = n

C8_NoDedup ==
    pc = "done" =>
        /\ \A k \in 1..NMembers : Valid(k) =>
              /\ 1 + Rank(k) <= Len(stdout)
              /\ stdout[1 + Rank(k)] = LineOfMember(k)
        /\ \A n \in PackageNames :
              Cardinality({q \in 2..Len(stdout) : HasName(stdout[q], n)})
                = Cardinality({k \in 1..NMembers : Valid(k) /\ NameOf(k) = n})

C8_Witness ==
    /\ pc = "done"
    /\ \E j, k \in 1..NMembers :
          /\ j < k
          /\ Members[j] = Members[k]
          /\ Valid(j)
          /\ stdout[1 + Rank(j)] = stdout[1 + Rank(k)]
    /\ \E j, k \in 1..NMembers :
          /\ j < k
          /\ Members[j] # Members[k]
          /\ Valid(j)
          /\ Valid(k)
          /\ NameOf(j) = NameOf(k)

(***************************************************************************)
(* C9, as stated: for every member path p the candidate directory is the   *)
(* root followed by p, and the manifest tested is <root>/<p>/Cargo.toml    *)
(* under the root ../substrate, also for a p that starts with "/".         *)
(***************************************************************************)
C9_Original ==
    /\ pc \in {"L22", "L23", "L24", "L25", "L26"} =>
          candidate_path = LiteralDirOf(path)
    /\ pc \in {"L23", "L24", "L25", "L26"} =>
          Collapse(candidate_cargo_file) = Collapse(LiteralManifestOf(path))

(***************************************************************************)
(* C9, amended: the candidate directory is the root, "/" and p for a p     *)
(* that does not start with "/", and p alone for a p that does; ".."       *)
(* segments are kept as written.  The manifest tested and parsed is the    *)
(* candidate directory, "/" unless it ends with one, and Cargo.toml; the   *)
(* path field of the entry is the candidate directory.                     *)
(***************************************************************************)
C9_JoinedLiterally ==
    /\ pc \in {"L22", "L23", "L24", "L25", "L26"} =>
          candidate_path = DirOf(path)
    /\ pc \in {"L23", "L24", "L25", "L26"} =>
          candidate_cargo_file = ManifestNameOf(path)
    /\ pc \in {"L24", "L25", "L26"} =>
          inspected[Len(inspected)] = ManifestNameOf(path)
    /\ (pc = "L20" /\ i >= 1 /\ Valid(i)) =>
          stdout[Len(stdout)] = ExpectedLine(NameOf(i), DirOf(Members[i]))

C9_Witness ==
    /\ pc = "done"
    /\ NMembers >= 2
    /\ Members[1] = PathDotDotB
    /\ Members[2] = PathAbsC
    /\ Len(stdout) = 3
    /\ stdout[2] = ExpectedLine(NameFoo, Root \o <<"/">> \o PathDotDotB)
    /\ stdout[3] = ExpectedLine(NameFoo, PathAbsC)

(***************************************************************************)
(* C10: output is incremental.  At every point of every run, also of one   *)
(* that fails later or has failed, standard output is empty before the     *)
(* header is written and afterwards is the header followed by the entries  *)
(* of exactly the valid members among those the loop has finished with.    *)
(***************************************************************************)
C10_IncrementalOutput ==
    stdout = IF pc \in {"L17", "L18", "L19"}
               THEN <<>>
               ELSE <<ExpectedHeader>> \o ExpectedEntries(Processed)

C10_Witness ==
    /\ FailedAtMember
    /\ i = NMembers
    /\ Len(stdout) = i
    /\ i >= 3
====
